---- MODULE Spec2Model ----
(***************************************************************************)
(* Model of the two kernel modules of the repository,                      *)
(*   src/hello_module/procReport.c   (module "procReport")                 *)
(*   src/hello_module/helloModule.c  (module "helloModule")                *)
(* Each walks the page tables of every process with pid > 650, counts the  *)
(* pages that translate to a physical address, classifies them as          *)
(* contiguous / non-contiguous and logs one CSV row per process and a      *)
(* totals row.                                                             *)
(*                                                                         *)
(* Machine words are scaled down: a page is 2^PAGE_SHIFT bytes, a page     *)
(* frame number has PfnBits bits, an unsigned long has BITS_PER_LONG bits. *)
(* A leaf entry (pte_t) is a raw word laid out as on x86-64:               *)
(*   bit 0                      _PAGE_PRESENT                              *)
(*   bits 1 .. PAGE_SHIFT-1     low attribute bits (_PAGE_RW, ...)         *)
(*   bits PAGE_SHIFT .. PhysBits-1   page frame number (PTE_PFN_MASK)      *)
(*   bit  BITS_PER_LONG-1       _PAGE_NX (high attribute bit)              *)
(***************************************************************************)
EXTENDS Integers, Sequences, FiniteSets, TLC

\* ---------------------------------------------------------------- bounds
PAGE_SHIFT == 2
PfnBits == 3
NumProcs == 2
MaxPages == 4
MaxFrame == 4

\* ------------------------------------------------------ program constants
PID_THRESHOLD == 650

PAGE_SIZE == 2 ^ PAGE_SHIFT
PhysBits == PAGE_SHIFT + PfnBits
BITS_PER_LONG == PhysBits + 1
ULONG_MOD == 2 ^ BITS_PER_LONG

\* x & PAGE_MASK : clears the low PAGE_SHIFT bits and nothing else.
AndPageMask(x) == x - (x % PAGE_SIZE)
\* x & ~PAGE_MASK : the offset within the page.
AndNotPageMask(x) == x % PAGE_SIZE

\* The "unmapped" sentinel of helloModule.c, 70368744173568 = 2^46 - 4096:
\* every frame-number bit set, i.e. what a cleared leaf entry decodes to.
UNMAPPED_SENTINEL == (2 ^ PhysBits) - PAGE_SIZE

Modules == {"procReport", "helloModule"}

\* ------------------------------------------- kernel helpers used by the walk
\* pXX_none(e) || pXX_bad(e) for the four directory levels.
none_or_bad(e) == e = "none" \/ e = "bad"

pte_present(pte) == pte % 2 = 1

\* pte_pfn(): a not-present entry is stored inverted (L1TF protection), then
\* the frame-number field is extracted with PTE_PFN_MASK.
pte_pfn(pte) ==
    LET raw == IF pte_present(pte) THEN pte ELSE (ULONG_MOD - 1) - pte
    IN  (raw % (2 ^ PhysBits)) \div PAGE_SIZE

\* pte_page(pte) = pfn_to_page(pte_pfn(pte)): pointer arithmetic on the page
\* array, never the null pointer.
pte_page(pte) == [null |-> FALSE, pfn |-> pte_pfn(pte)]

page_to_phys(page) == page.pfn * PAGE_SIZE

\* pte_val(pte): the raw word.
pte_val(pte) == pte

\* ------------------------------------------------------------- virt2phys
\* One call of virt2phys is a run of WalkStep from WalkEntry to pc = "ret".
\* kmaps counts the temporary leaf mappings held (pte_offset_map adds one,
\* pte_unmap removes one).
\* Positions: "pgd", "p4d", "pud", "pmd", "pte_map", "pte_check", "phys", "ret".
WalkEntry == [pc |-> "pgd", kmaps |-> 0, ret |-> 0]

Return(st, v) == [st EXCEPT !.pc = "ret", !.ret = v]

pte_unmap(st) == [st EXCEPT !.kmaps = @ - 1]

\* if (pXX_none(*e) || pXX_bad(*e)) return 0;
DirLevel(e, st, next) ==
    IF none_or_bad(e) THEN Return(st, 0) ELSE [st EXCEPT !.pc = next]

\* pte = pte_offset_map(pmd, vaddr); if (!pte) return 0;
LeafMap(in, st) ==
    IF ~in.map_ok
    THEN Return(st, 0)
    ELSE [st EXCEPT !.pc = "pte_check", !.kmaps = @ + 1]

\* Faulty variant of LeafCheck: the early return forgets pte_unmap.
LeafCheck_NoUnmap(m, in, st) ==
    IF m = "procReport"
    THEN IF ~pte_present(in.pte)
         THEN Return(st, 0)
         ELSE [st EXCEPT !.pc = "phys"]
    ELSE IF pte_page(in.pte).null
         THEN Return(st, 0)
         ELSE [st EXCEPT !.pc = "phys"]

\* procReport:  if (!pte_present(*pte)) { pte_unmap(pte); return 0; }
\* helloModule: page_ptr = pte_page(*pte_entry);
\*              if (!page_ptr) { pte_unmap(pte_entry); return 0; }
LeafCheck(m, in, st) ==
    IF m = "procReport"
    THEN IF ~pte_present(in.pte)
         THEN Return(pte_unmap(st), 0)
         ELSE [st EXCEPT !.pc = "phys"]
    ELSE IF pte_page(in.pte).null
         THEN Return(pte_unmap(st), 0)
         ELSE [st EXCEPT !.pc = "phys"]

\* procReport:  phys = (pte_val(*pte) & PAGE_MASK) | (vaddr & ~PAGE_MASK);
\*              pte_unmap(pte); return phys;
\* helloModule: phys_addr = page_to_phys(page_ptr); pte_unmap(pte_entry);
\*              if (phys_addr == 70368744173568ULL) return 0;
\*              return phys_addr;
LeafResolve(m, in, st) ==
    IF m = "procReport"
    THEN LET phys == AndPageMask(pte_val(in.pte)) + AndNotPageMask(in.vaddr)
         IN  Return(pte_unmap(st), phys)
    ELSE LET phys_addr == page_to_phys(pte_page(in.pte))
         IN  IF phys_addr = UNMAPPED_SENTINEL
             THEN Return(pte_unmap(st), 0)
             ELSE Return(pte_unmap(st), phys_addr)

WalkStep(m, in, st) ==
    CASE st.pc = "pgd"       -> DirLevel(in.pgd, st, "p4d")
      [] st.pc = "p4d"       -> DirLevel(in.p4d, st, "pud")
      [] st.pc = "pud"       -> DirLevel(in.pud, st, "pmd")
      [] st.pc = "pmd"       -> DirLevel(in.pmd, st, "pte_map")
      [] st.pc = "pte_map"   -> LeafMap(in, st)
      [] st.pc = "pte_check" -> LeafCheck(m, in, st)
      [] st.pc = "phys"      -> LeafResolve(m, in, st)
      [] OTHER               -> st

RECURSIVE RunWalk(_, _, _)
RunWalk(m, in, st) ==
    IF st.pc = "ret" THEN st ELSE RunWalk(m, in, WalkStep(m, in, st))

\* unsigned long virt2phys(struct mm_struct *mm, unsigned long vaddr)
virt2phys(m, in) == RunWalk(m, in, WalkEntry).ret

\* ------------------------------------------------- inputs of one translation
\* What the page tables hold for one virtual address.  Levels below the first
\* failing one are never read, so they are left at a fixed value.
PteWords == 0 .. (ULONG_MOD - 1)

WalkIn(pgd, p4d, pud, pmd, map_ok, pte, vaddr) ==
    [pgd |-> pgd, p4d |-> p4d, pud |-> pud, pmd |-> pmd,
     map_ok |-> map_ok, pte |-> pte, vaddr |-> vaddr]

DirFailures(vaddr) ==
    {WalkIn(f, "ok", "ok", "ok", TRUE, 0, vaddr) : f \in {"none", "bad"}}
    \cup {WalkIn("ok", f, "ok", "ok", TRUE, 0, vaddr) : f \in {"none", "bad"}}
    \cup {WalkIn("ok", "ok", f, "ok", TRUE, 0, vaddr) : f \in {"none", "bad"}}
    \cup {WalkIn("ok", "ok", "ok", f, TRUE, 0, vaddr) : f \in {"none", "bad"}}

WalkInputs(vaddr) ==
    DirFailures(vaddr)
    \cup {WalkIn("ok", "ok", "ok", "ok", FALSE, 0, vaddr)}
    \cup {WalkIn("ok", "ok", "ok", "ok", TRUE, pte, vaddr) : pte \in PteWords}

\* The leaf entries met while scanning address spaces: cleared entries,
\* present entries for frames 1 .. MaxFrame, and one not-present entry with
\* a payload (a swap entry, whose inverted frame field reads as frame
\* MaxFrame).
PresentPte(pfn) == pfn * PAGE_SIZE + 1
ScanPtes ==
    {0} \cup {PresentPte(pfn) : pfn \in 1 .. MaxFrame}
        \cup {((2 ^ PfnBits) - 1 - MaxFrame) * PAGE_SIZE}

ScanInputs(vaddr) ==
    {WalkIn("none", "ok", "ok", "ok", TRUE, 0, vaddr)}
    \cup {WalkIn("ok", "ok", "ok", "ok", TRUE, pte, vaddr) : pte \in ScanPtes}

\* --------------------------------------------------------------- state
VARIABLES
    impl,       \* which module is loaded
    win,        \* page-table contents seen by the running virt2phys call
    wst,        \* position, held mappings and return value of that call
    pc,         \* position of the report: "start", "loop", "scan", "counted",
                \* "done"
    iterated,   \* pids yielded by for_each_process so far, in order
    task,       \* the task being scanned: [pid, mm]; history fields: stale =
                \* prev_phys left by the scan before (until a page resolves),
                \* follows = the first resolved frame was stale + PAGE_SIZE
    vma,        \* current vm_area_struct [null, vm_start, vm_end]
    addr,       \* addr / vaddr of the page loop
    acct,       \* proc_total / proc_contig / proc_noncontig, first_page, prev_phys
    grand,      \* grand_total / grand_contig / grand_noncontig
    klog,       \* lines written with printk, in order
    translated, \* history: number of virt2phys calls of this report
    walks,      \* history: virt2phys results of the task being accounted
    iso,        \* history: the same scan run alone from a fresh state
    twin,       \* the other module's accounting of the same results (only
                \* used when the two accountings are run side by side)
    finished    \* history: [pid, cnt, iso, walks] of every finished scan

vars == <<impl, win, wst, pc, iterated, task, vma, addr, acct, grand, klog,
          translated, walks, iso, twin, finished>>

walkVars == <<win, wst>>
reportVars == <<pc, iterated, task, vma, addr, acct, grand, klog, translated,
                walks, iso, twin, finished>>

\* ------------------------------------------------------------ accounting
\* The resolved frames among the translation results w, in order.
IsResolved(p) == p # 0
Frames(w) == SelectSeq(w, IsResolved)

ZeroCnt == [total |-> 0, contig |-> 0, noncontig |-> 0]
Cnt(a) == [total |-> a.total, contig |-> a.contig, noncontig |-> a.noncontig]
AddCnt(g, c) == [total |-> g.total + c.total,
                 contig |-> g.contig + c.contig,
                 noncontig |-> g.noncontig + c.noncontig]

\* The values an uninitialised unsigned long (prev_phys of procReport_init)
\* may hold: any word; zero and one frame address stand for them.
StaleValues == {0, PAGE_SIZE}

\* Faulty variant of ResetAcct: the classifier state survives into the next scan.
ResetAcct_Leaky(m, a) ==
    [total |-> 0, contig |-> 0, noncontig |-> 0,
     first_page |-> a.first_page, prev_phys |-> a.prev_phys]

\* Start of one process's accounting.
\* procReport:  proc_total_pages = proc_contig_pages = proc_noncontig_pages = 0;
\*              first_page = true;            (prev_phys keeps its old value)
\* helloModule: unsigned long prev_phys = 0; *total = 0; *contig = 0;
\*              *noncontig = 0;               (there is no first_page flag)
ResetAcct(m, a) ==
    IF m = "procReport"
    THEN [total |-> 0, contig |-> 0, noncontig |-> 0,
          first_page |-> TRUE, prev_phys |-> a.prev_phys]
    ELSE [total |-> 0, contig |-> 0, noncontig |-> 0,
          first_page |-> FALSE, prev_phys |-> 0]

\* Faulty variant of Adjacent: compares with the previous frame itself.
Adjacent_SameFrame(prev, phys) == prev = phys

\* prev_phys + PAGE_SIZE == phys, in unsigned long arithmetic.
Adjacent(prev, phys) == (prev + PAGE_SIZE) % ULONG_MOD = phys

\* Faulty variant of OnUnmapped: an unmapped page restarts the comparison.
OnUnmapped_ForgetPrev(a) == [a EXCEPT !.prev_phys = 0, !.first_page = FALSE]

\* if (phys == 0) continue;
OnUnmapped(a) == a

\* Faulty variant of CountResolved: procReport without its first_page test.
CountResolved_NoFirstFlag(m, a, phys) ==
    IF Adjacent(a.prev_phys, phys) /\ (m = "procReport" \/ a.prev_phys # 0)
    THEN [a EXCEPT !.total = @ + 1, !.contig = @ + 1, !.prev_phys = phys]
    ELSE IF m = "procReport" \/ a.prev_phys # 0
         THEN [a EXCEPT !.total = @ + 1, !.noncontig = @ + 1,
                        !.prev_phys = phys]
         ELSE [a EXCEPT !.total = @ + 1, !.prev_phys = phys]

\* The rest of the loop body, for a page with phys != 0.
\* procReport:  proc_total_pages++;
\*              if (first_page) { proc_noncontig_pages++; first_page = false; }
\*              else if (prev_phys + PAGE_SIZE == phys) proc_contig_pages++;
\*              else proc_noncontig_pages++;
\*              prev_phys = phys;
\* helloModule: (*total)++;
\*              if (contig && noncontig) {
\*                  if (prev_phys != 0) {
\*                      if (phys == prev_phys + PAGE_SIZE) (*contig)++;
\*                      else (*noncontig)++;
\*                  }
\*                  prev_phys = phys;
\*              }
\* (generate_report always passes non-null contig and noncontig.)
CountResolved(m, a, phys) ==
    IF m = "procReport"
    THEN IF a.first_page
         THEN [a EXCEPT !.total = @ + 1, !.noncontig = @ + 1,
                        !.first_page = FALSE, !.prev_phys = phys]
         ELSE IF Adjacent(a.prev_phys, phys)
              THEN [a EXCEPT !.total = @ + 1, !.contig = @ + 1,
                             !.prev_phys = phys]
              ELSE [a EXCEPT !.total = @ + 1, !.noncontig = @ + 1,
                             !.prev_phys = phys]
    ELSE IF a.prev_phys # 0
         THEN IF Adjacent(a.prev_phys, phys)
              THEN [a EXCEPT !.total = @ + 1, !.contig = @ + 1,
                             !.prev_phys = phys]
              ELSE [a EXCEPT !.total = @ + 1, !.noncontig = @ + 1,
                             !.prev_phys = phys]
         ELSE [a EXCEPT !.total = @ + 1, !.prev_phys = phys]

\* Faulty variant of CountPage: the total is incremented before the zero test.
CountPage_CountFirst(m, a, phys) ==
    IF phys = 0
    THEN [a EXCEPT !.total = @ + 1]
    ELSE CountResolved(m, a, phys)

\* Body of the page loop after phys = virt2phys(mm, addr).
CountPage(m, a, phys) ==
    IF phys = 0
    THEN OnUnmapped(a)
    ELSE CountResolved(m, a, phys)

\* Faulty variant of AdjustFirst: the first page is never added.
AdjustFirst_Never(m, a) == a

\* helloModule: if (contig && noncontig && *total > 0 &&
\*                  ((*contig + *noncontig) < *total)) (*noncontig)++;
\* procReport has no step after the loops.
AdjustFirst(m, a) ==
    IF m = "helloModule" /\ a.total > 0 /\ a.contig + a.noncontig < a.total
    THEN [a EXCEPT !.noncontig = @ + 1]
    ELSE a

\* Faulty variant of Included: pid >= 650.
Included_AtThreshold(pid) == pid >= PID_THRESHOLD

\* if (task->pid > 650)
Included(pid) == pid > PID_THRESHOLD

\* Faulty variant of PrintRow: no row for a process without pages.
PrintRow_SkipEmpty(log, pid, c) ==
    IF c.total = 0
    THEN log
    ELSE Append(log, [kind |-> "row", pid |-> pid, cnt |-> c])

\* printk("%d,%s,%lu,%lu,%lu", task->pid, task->comm, ...): the row of a process.
PrintRow(log, pid, c) == Append(log, [kind |-> "row", pid |-> pid, cnt |-> c])

\* printk("TOTALS,,%lu,%lu,%lu", ...): the totals row.
PrintTotals(log, g) == Append(log, [kind |-> "totals", cnt |-> g])

\* ------------------------------------------------------ processes and areas
\* A struct vm_area_struct pointer: the null pointer, or an area [s, e) pages.
NullVma == [null |-> TRUE, vm_start |-> 0, vm_end |-> 0]
Vma(s, e) == [null |-> FALSE, vm_start |-> s * PAGE_SIZE, vm_end |-> e * PAGE_SIZE]

Min(a, b) == IF a < b THEN a ELSE b

\* The areas that may follow in the list: non-empty, page-aligned, ascending
\* and not overlapping what came before (lo = first free page).
\* At most `room` pages long, so that one report translates MaxPages pages.
VmaChoices(lo, room) ==
    UNION {{Vma(s, e) : e \in (s + 1) .. Min(MaxPages, s + room)} :
              s \in lo .. (MaxPages - 1)}

PidSet == PID_THRESHOLD .. (PID_THRESHOLD + 2)

SeqToSet(q) == {q[i] : i \in DOMAIN q}

IdleWalkIn == WalkIn("ok", "ok", "ok", "ok", TRUE, 0, 0)
IdleWalk == [pc |-> "ret", kmaps |-> 0, ret |-> 0]
FreshAcct == [total |-> 0, contig |-> 0, noncontig |-> 0,
              first_page |-> FALSE, prev_phys |-> 0]

\* ----------------------------------------------------------------- Init
\* The module has just been loaded; its init function has not run yet.  The
\* locals of procReport_init are uninitialised.
Init ==
    /\ impl \in Modules
    /\ win = IdleWalkIn
    /\ wst = IdleWalk
    /\ pc = "start"
    /\ iterated = <<>>
    /\ task = [pid |-> 0, mm |-> FALSE, stale |-> 0, follows |-> FALSE]
    /\ vma = NullVma
    /\ addr = 0
    /\ acct \in IF impl = "procReport"
                THEN {[FreshAcct EXCEPT !.prev_phys = v, !.first_page = b] :
                         v \in StaleValues, b \in BOOLEAN}
                ELSE {FreshAcct}
    /\ grand = ZeroCnt
    /\ klog = <<>>
    /\ translated = 0
    /\ walks = <<>>
    /\ iso = FreshAcct
    /\ twin = FreshAcct
    /\ finished = <<>>

\* -------------------------------------------------------------- the report
\* printk("PROCESS REPORT:"); printk("proc_id,proc_name,...");
ReportBegin ==
    /\ pc = "start"
    /\ pc' = "loop"
    /\ klog' = klog \o <<[kind |-> "title"], [kind |-> "columns"]>>
    /\ grand' = ZeroCnt
    /\ UNCHANGED <<impl, twin, walkVars, iterated, task, vma, addr, acct, translated,
                   walks, iso, finished>>

\* for_each_process yields a task whose pid fails  pid > 650.
SkipTask ==
    /\ pc = "loop"
    /\ Len(iterated) < NumProcs
    /\ \E pid \in PidSet \ SeqToSet(iterated) :
          /\ ~Included(pid)
          /\ iterated' = Append(iterated, pid)
    /\ UNCHANGED <<impl, twin, walkVars, pc, task, vma, addr, acct, grand, klog,
                   translated, walks, iso, finished>>

\* for_each_process yields a task with pid > 650: the counters are reset and
\* the area list is entered (if (mm) / if (task->mm && task->mm->mmap)).
BeginTask ==
    /\ pc = "loop"
    /\ Len(iterated) < NumProcs
    /\ \E pid \in PidSet \ SeqToSet(iterated), mm \in BOOLEAN :
          /\ Included(pid)
          /\ iterated' = Append(iterated, pid)
          /\ task' = [pid |-> pid, mm |-> mm, stale |-> acct.prev_phys,
                      follows |-> FALSE]
          /\ \E first \in (IF mm THEN VmaChoices(0, MaxPages - translated) ELSE {}) \cup {NullVma} :
                /\ vma' = first
                /\ addr' = first.vm_start
    /\ acct' = ResetAcct(impl, acct)
    /\ iso' = ResetAcct(impl, FreshAcct)
    /\ walks' = <<>>
    /\ pc' = "scan"
    /\ UNCHANGED <<impl, twin, walkVars, grand, klog, translated, finished>>

\* One iteration of the page loop:
\*   phys = virt2phys(mm, addr); if (phys == 0) continue; ...; addr += PAGE_SIZE
ScanPage ==
    /\ pc = "scan"
    /\ ~vma.null
    /\ addr < vma.vm_end
    /\ \E in \in ScanInputs(addr) :
          LET phys == virt2phys(impl, in)
          IN  /\ acct' = CountPage(impl, acct, phys)
              /\ iso' = CountPage(impl, iso, phys)
              /\ walks' = Append(walks, phys)
              /\ task' = IF phys # 0 /\ Frames(walks) = <<>>
                         THEN [task EXCEPT !.stale = 0,
                                           !.follows = task.stale # 0 /\
                                               phys = task.stale + PAGE_SIZE]
                         ELSE task
    /\ addr' = addr + PAGE_SIZE
    /\ translated' = translated + 1
    /\ UNCHANGED <<impl, twin, walkVars, pc, iterated, vma, grand, klog, finished>>

\* The page loop of one area is over: vma = vma->vm_next.
NextVma ==
    /\ pc = "scan"
    /\ ~vma.null
    /\ addr >= vma.vm_end
    /\ \E nxt \in VmaChoices(vma.vm_end \div PAGE_SIZE, MaxPages - translated)
                     \cup {NullVma} :
          /\ vma' = nxt
          /\ addr' = IF nxt.null THEN addr ELSE nxt.vm_start
    /\ UNCHANGED <<impl, twin, walkVars, pc, iterated, task, acct, grand, klog,
                   translated, walks, iso, finished>>

\* The area list is exhausted: the loops end; helloModule makes its
\* first-page adjustment and count_allocated_pages returns.
FinishScan ==
    /\ pc = "scan"
    /\ vma.null
    /\ acct' = AdjustFirst(impl, acct)
    /\ iso' = AdjustFirst(impl, iso)
    /\ pc' = "counted"
    /\ UNCHANGED <<impl, twin, walkVars, iterated, task, vma, addr, grand, klog,
                   translated, walks, finished>>

\* The row of this process is printed and its counters are added to the
\* grand totals (procReport adds first, helloModule prints first).
EmitTask ==
    /\ pc = "counted"
    /\ klog' = PrintRow(klog, task.pid, Cnt(acct))
    /\ grand' = AddCnt(grand, Cnt(acct))
    /\ finished' = Append(finished, [pid |-> task.pid, cnt |-> Cnt(acct),
                                     iso |-> Cnt(iso)])
    /\ walks' = <<>>
    /\ iso' = FreshAcct
    /\ task' = [task EXCEPT !.stale = 0, !.follows = FALSE]
    /\ pc' = "loop"
    /\ UNCHANGED <<impl, twin, walkVars, iterated, vma, addr, acct, translated>>

\* for_each_process is over: printk("TOTALS,,...").
ReportEnd ==
    /\ pc = "loop"
    /\ klog' = PrintTotals(klog, grand)
    /\ pc' = "done"
    /\ UNCHANGED <<impl, twin, walkVars, iterated, task, vma, addr, acct, grand,
                   translated, walks, iso, finished>>

Next ==
    \/ ReportBegin
    \/ SkipTask
    \/ BeginTask
    \/ ScanPage
    \/ NextVma
    \/ FinishScan
    \/ EmitTask
    \/ ReportEnd

Spec == Init /\ [][Next]_vars

\* ------------------------------------------------ virt2phys, step by step
WalkVaddrs == 0 .. (2 * PAGE_SIZE - 1)

AllWalkInputs == UNION {WalkInputs(v) : v \in WalkVaddrs}

InitWalk ==
    /\ impl \in Modules
    /\ win \in AllWalkInputs
    /\ wst = WalkEntry
    /\ pc = "start"
    /\ iterated = <<>>
    /\ task = [pid |-> 0, mm |-> FALSE, stale |-> 0, follows |-> FALSE]
    /\ vma = NullVma
    /\ addr = 0
    /\ acct = FreshAcct
    /\ grand = ZeroCnt
    /\ klog = <<>>
    /\ translated = 0
    /\ walks = <<>>
    /\ iso = FreshAcct
    /\ twin = FreshAcct
    /\ finished = <<>>

\* One statement of the running virt2phys call.
WalkAdvance ==
    /\ wst.pc # "ret"
    /\ wst' = WalkStep(impl, win, wst)
    /\ UNCHANGED <<impl, win, reportVars>>

\* virt2phys has returned; it is called again for another address.
WalkCall ==
    /\ wst.pc = "ret"
    /\ win' \in AllWalkInputs
    /\ wst' = [WalkEntry EXCEPT !.kmaps = wst.kmaps]
    /\ UNCHANGED <<impl, reportVars>>

NextWalk ==
    \/ WalkAdvance
    \/ WalkCall

SpecWalk == InitWalk /\ [][NextWalk]_vars

\* ------------------------------- the two accountings run side by side
\* The page loops of procReport_init and of count_allocated_pages are fed the
\* same sequence of virt2phys results: acct is the accounting of module impl,
\* twin that of the other module.
Other(m) == IF m = "procReport" THEN "helloModule" ELSE "procReport"

\* What virt2phys may return: 0, the frame addresses 1 .. MaxFrame, the last
\* page of the address range, and an address that is not page-aligned.
EquivResults ==
    {0} \cup {f * PAGE_SIZE : f \in 1 .. MaxFrame}
        \cup {ULONG_MOD - PAGE_SIZE, PAGE_SIZE + 1}

\* Both accountings have just been reset for one process.
InitEquiv ==
    /\ impl \in Modules
    /\ win = IdleWalkIn
    /\ wst = IdleWalk
    /\ pc = "scan"
    /\ iterated = <<>>
    /\ task = [pid |-> 0, mm |-> FALSE, stale |-> 0, follows |-> FALSE]
    /\ vma = NullVma
    /\ addr = 0
    /\ acct \in {ResetAcct(impl, [FreshAcct EXCEPT !.prev_phys = v]) :
                    v \in StaleValues \cup {ULONG_MOD - PAGE_SIZE}}
    /\ twin \in {ResetAcct(Other(impl), [FreshAcct EXCEPT !.prev_phys = v]) :
                    v \in StaleValues \cup {ULONG_MOD - PAGE_SIZE}}
    /\ grand = ZeroCnt
    /\ klog = <<>>
    /\ translated = 0
    /\ walks = <<>>
    /\ iso = FreshAcct
    /\ finished = <<>>

\* One iteration of both page loops on the same result phys.
EquivPage ==
    /\ pc = "scan"
    /\ Len(walks) < MaxPages
    /\ \E phys \in EquivResults :
          /\ acct' = CountPage(impl, acct, phys)
          /\ twin' = CountPage(Other(impl), twin, phys)
          /\ walks' = Append(walks, phys)
    /\ UNCHANGED <<impl, walkVars, pc, iterated, task, vma, addr, grand, klog,
                   translated, iso, finished>>

\* Both loops end; helloModule makes its first-page adjustment.
EquivFinish ==
    /\ pc = "scan"
    /\ acct' = AdjustFirst(impl, acct)
    /\ twin' = AdjustFirst(Other(impl), twin)
    /\ pc' = "counted"
    /\ UNCHANGED <<impl, walkVars, iterated, task, vma, addr, grand, klog,
                   translated, walks, iso, finished>>

NextEquiv ==
    \/ EquivPage
    \/ EquivFinish

SpecEquiv == InitEquiv /\ [][NextEquiv]_vars

\* =================================================================== claims
ScanOver == pc = "counted"
Pids(q) == [i \in DOMAIN q |-> q[i].pid]
Above650(pid) == pid > 650
IsRow(l) == l.kind = "row"

\* C1: once the accounting of a process is finished, its counters satisfy
\* contiguous + nonContiguous = total when total > 0, and are both 0 when
\* total = 0.
C1_CountersPartitionTotal ==
    \A i \in DOMAIN finished :
        LET c == finished[i].cnt
        IN  /\ c.contig >= 0 /\ c.noncontig >= 0
            /\ c.total > 0 => c.contig + c.noncontig = c.total
            /\ c.total = 0 => (c.contig = 0 /\ c.noncontig = 0)

C1_Witness ==
    /\ impl = "helloModule"
    /\ finished # <<>>
    /\ finished[Len(finished)].cnt = [total |-> 3, contig |-> 1, noncontig |-> 2]

C2_ContigCount(f) ==
    Cardinality({i \in 2 .. Len(f) : f[i] = f[i - 1] + PAGE_SIZE})
C2_NonContigCount(f) ==
    (IF Len(f) > 0 THEN 1 ELSE 0)
    + Cardinality({i \in 2 .. Len(f) : f[i] # f[i - 1] + PAGE_SIZE})
\* C2: over the ordered resolved frames of one process, the first frame is
\* non-contiguous and every later frame f is contiguous exactly when
\* f = previous frame + page size, non-contiguous otherwise.
C2_ClassifiedByPredecessor ==
    ScanOver =>
        LET f == Frames(walks)
        IN  Cnt(acct) = [total |-> Len(f), contig |-> C2_ContigCount(f),
                         noncontig |-> C2_NonContigCount(f)]

\* frames F, F+P, G, G+P with G # F+2P give {4, 2, 2}
C2_Witness ==
    /\ ScanOver
    /\ Len(walks) = 4
    /\ walks[1] # 0
    /\ walks[2] = walks[1] + PAGE_SIZE
    /\ walks[3] # 0 /\ walks[3] # walks[2] + PAGE_SIZE
    /\ walks[4] = walks[3] + PAGE_SIZE
    /\ Cnt(acct) = [total |-> 4, contig |-> 2, noncontig |-> 2]

C3_UnmappedStep ==
    /\ translated' = translated + 1
    /\ walks'[Len(walks')] = 0
C3_AreaStep == pc = "scan" /\ pc' = "scan" /\ vma' # vma
\* C3: an unmapped page, and the step from one area to the next, change no
\* counter and leave previousFrame alone; previousFrame is always the last
\* resolved frame, whatever lies between it and the next resolved page.
C3_UnmappedLeavesStateAlone ==
    /\ [][(C3_UnmappedStep \/ C3_AreaStep) => acct' = acct]_vars
    /\ [](pc = "scan" /\ Frames(walks) # <<>>
            => acct.prev_phys = Frames(walks)[Len(Frames(walks))])

C3_Witness ==
    /\ pc = "scan"
    /\ Len(walks) = 3
    /\ walks[1] # 0 /\ walks[2] = 0 /\ walks[3] = walks[1] + PAGE_SIZE
    /\ acct.contig = 1

\* C5: total is the number of pages whose translation is Resolved, and the
\* counters are {0,0,0} when no page of the process resolves.
C5_TotalCountsResolved ==
    /\ pc \in {"scan", "counted"}
          => acct.total = Cardinality({i \in DOMAIN walks : walks[i] # 0})
    /\ (ScanOver /\ Frames(walks) = <<>>) => Cnt(acct) = ZeroCnt

C5_Witness ==
    /\ ScanOver
    /\ Len(walks) = 4
    /\ walks[1] = 0 /\ walks[2] # 0 /\ walks[3] = 0 /\ walks[4] # 0
    /\ acct.total = 2

RECURSIVE C6_Sum(_)
C6_Sum(q) ==
    IF q = <<>> THEN ZeroCnt
    ELSE LET c == q[Len(q)].cnt
             r == C6_Sum(SubSeq(q, 1, Len(q) - 1))
         IN  [total |-> r.total + c.total, contig |-> r.contig + c.contig,
              noncontig |-> r.noncontig + c.noncontig]
\* C6: the system totals are the field-wise sum of the counters of exactly
\* the processes with identifier > 650, in iteration order or any other.
C6_TotalsAreSumOfIncluded ==
    /\ pc # "start" => grand = C6_Sum(finished)
    /\ pc \in {"loop", "done"}
          => Pids(finished) = SelectSeq(iterated, Above650)
    /\ pc = "done" => klog[Len(klog)] = [kind |-> "totals",
                                         cnt |-> C6_Sum(finished)]

C6_Witness ==
    /\ pc = "done"
    /\ Len(finished) = 2
    /\ finished[1].cnt.total > 0
    /\ finished[2].cnt.contig > 0
    /\ grand.total = finished[1].cnt.total + finished[2].cnt.total

\* C8: the counters of a process are those its scan yields when run alone
\* from a fresh state: nothing left by an earlier scan influences them.
C8_NoStateAcrossProcesses ==
    /\ \A i \in DOMAIN finished : finished[i].cnt = finished[i].iso
    /\ ScanOver => Cnt(acct) = Cnt(iso)

\* the second process starts on the frame that follows the last frame of the
\* first process
C8_Witness ==
    /\ ScanOver
    /\ Len(finished) = 1
    /\ finished[1].cnt.total > 0
    /\ task.follows
    /\ acct.total > 0

C10_Rows == SelectSeq(klog, IsRow)
\* C10: one row per included process, in iteration order, each after that
\* process's scan has finished, and one totals row after every process row.
C10_RowsInOrderTotalsLast ==
    /\ Len(C10_Rows) = Len(finished)
    /\ \A i \in DOMAIN finished :
          C10_Rows[i] = [kind |-> "row", pid |-> finished[i].pid,
                         cnt |-> finished[i].cnt]
    /\ SelectSeq(iterated, Above650) =
          IF pc \in {"scan", "counted"} THEN Append(Pids(finished), task.pid)
                                        ELSE Pids(finished)
    /\ pc \in {"scan", "counted"} => \A i \in DOMAIN klog :
                          IsRow(klog[i]) => klog[i].pid # task.pid
    /\ pc # "done" => \A i \in DOMAIN klog : klog[i].kind # "totals"
    /\ pc = "done" =>
          klog = <<[kind |-> "title"], [kind |-> "columns"]>> \o C10_Rows
                 \o <<[kind |-> "totals", cnt |-> grand]>>

C10_Witness ==
    /\ pc = "done"
    /\ Len(iterated) = 2
    /\ Len(klog) = 5
    /\ klog[3].pid > klog[4].pid

\* -------------------------------------------------- claims about virt2phys
Returned == wst.pc = "ret"
DirsOk(in) == in.pgd = "ok" /\ in.p4d = "ok" /\ in.pud = "ok" /\ in.pmd = "ok"
LeafPresent(in) == in.pte % 2 = 1
FrameNumber(pte) == (pte % (2 ^ PhysBits)) \div PAGE_SIZE

\* C4: virt2phys returns 0 whenever one of the five levels fails: a
\* directory entry is absent or bad, or the leaf entry is not present.
C4_FailingLevelGivesUnmapped ==
    (Returned /\ (~DirsOk(win) \/ ~LeafPresent(win))) => wst.ret = 0

\* C7: the leaf mapping taken with pte_offset_map is released before
\* virt2phys returns, is never released without being held, and none is
\* held once the call has returned.
C7_LeafMappingScoped ==
    /\ wst.kmaps \in {0, 1}
    /\ wst.kmaps = 1 <=> wst.pc \in {"pte_check", "phys"}
    /\ Returned => wst.kmaps = 0

C7_Witness ==
    /\ impl = "procReport"
    /\ Returned
    /\ DirsOk(win) /\ win.map_ok /\ ~LeafPresent(win) /\ win.pte # 0
    /\ wst.kmaps = 0

\* C9: for a present leaf entry and a page-aligned address virt2phys returns
\* (frame number of the entry) * page size, whatever the attribute bits.
C9_PresentGivesFrameAddress ==
    (Returned /\ DirsOk(win) /\ win.map_ok /\ LeafPresent(win)
        /\ win.vaddr % PAGE_SIZE = 0)
    => wst.ret = FrameNumber(win.pte) * PAGE_SIZE

\* C11: fed the same ordered sequence of translation results, the inline
\* first-page rule of procReport_init and the post-scan adjustment of
\* count_allocated_pages end with identical {total, contig, noncontig}.
C11_InlineRuleEqualsAdjustment ==
    pc = "counted" => Cnt(acct) = Cnt(twin)

\* an unmapped page first, then a frame, its successor, and the last page
C11_Witness ==
    /\ pc = "counted"
    /\ Len(walks) = 4
    /\ walks[1] = 0
    /\ walks[2] # 0
    /\ walks[3] = walks[2] + PAGE_SIZE
    /\ walks[4] = ULONG_MOD - PAGE_SIZE
    /\ Cnt(acct) = [total |-> 3, contig |-> 1, noncontig |-> 2]
    /\ Cnt(twin) = Cnt(acct)

====
